---------------------------- MODULE Spec2Model ----------------------------
(***************************************************************************)
(* Model of src/src/ip_info.py: class GetDetailIPv4Info.                   *)
(*                                                                         *)
(* One object is constructed (one HTTP GET to ipinfo.io, json.loads of the *)
(* body, the "status" error check) and then read through its properties.   *)
(*                                                                         *)
(* Python values are records [t |-> type, v |-> payload].  A str is a      *)
(* sequence of text chunks; "," is the only chunk that contains a comma.   *)
(* A dict is the sequence of its <<key, value>> items in insertion order.  *)
(* The outcome of an operation is [exc |-> exception or "none", val |-> the *)
(* returned value, or the exception's argument].                           *)
(*                                                                         *)
(* The f-string of line 124 nests double quotes, which Python accepts from *)
(* 3.12 on; the model is of the class as Python 3.12 runs it.              *)
(***************************************************************************)
EXTENDS Integers, Sequences, FiniteSets, TLC

VARIABLES
    pc,          \* "new": no call yet; "constructed": __init__ returned; "failed": __init__ raised
    ip_address,  \* self.ip_address
    all_data,    \* self.all_data
    requests,    \* the calls made to https.request, in order
    response,    \* what the transport delivered to the constructor
    last_op,     \* the last operation the caller invoked
    result       \* its outcome

vars == <<pc, ip_address, all_data, requests, response, last_op, result>>

-----------------------------------------------------------------------------
(* Bounds of the model *)

MaxMembers == 2   \* members in a JSON object of the response body
MaxStrLen == 3    \* chunks in a "loc" string
MaxClock == 1     \* readings of the system clock

-----------------------------------------------------------------------------
(* Python values *)

PyNone == [t |-> "NoneType", v |-> <<>>]
PyBool(b) == [t |-> "bool", v |-> b]
PyInt(n) == [t |-> "int", v |-> n]
PyStr(s) == [t |-> "str", v |-> s]
PyDict(items) == [t |-> "dict", v |-> items]
PyList(items) == [t |-> "list", v |-> items]
PyTuple(items) == [t |-> "tuple", v |-> items]
NoAttr == [t |-> "unset", v |-> <<>>]

Return(v) == [exc |-> "none", val |-> v]
Raise(e, arg) == [exc |-> e, val |-> arg]

HasKey(items, k) == \E i \in 1..Len(items) : items[i][1] = k
Lookup(items, k) == items[CHOOSE i \in 1..Len(items) : items[i][1] = k][2]
DictKeys(items) == {items[i][1] : i \in 1..Len(items)}

\* d[k] = v on a dict: an existing key keeps its position
SetItem(items, k, v) ==
    IF HasKey(items, k)
    THEN [i \in 1..Len(items) |-> IF items[i][1] = k THEN <<k, v>> ELSE items[i]]
    ELSE Append(items, <<k, v>>)

\* `key in container`
Contains(container, key) ==
    CASE container.t = "dict" -> Return(PyBool(HasKey(container.v, key)))
      [] container.t = "list" ->
            Return(PyBool(\E i \in 1..Len(container.v) : container.v[i] = PyStr(<<key>>)))
      [] container.t = "str" ->
            Return(PyBool(\E i \in 1..Len(container.v) : container.v[i] = key))
      [] OTHER -> Raise("TypeError", PyStr(<<"argument of type '", container.t, "' is not iterable">>))

\* `container[key]` with a str key
GetItem(container, key) ==
    CASE container.t = "dict" ->
            IF HasKey(container.v, key)
            THEN Return(Lookup(container.v, key))
            ELSE Raise("KeyError", PyStr(<<key>>))
      [] container.t \in {"list", "str"} ->
            Raise("TypeError", PyStr(<<container.t, " indices must be integers">>))
      [] OTHER -> Raise("TypeError", PyStr(<<"'", container.t, "' object is not subscriptable">>))


-----------------------------------------------------------------------------
(* Text of values: repr() and the str() an f-string applies *)

RECURSIVE JoinChunks(_, _)
\* sep.join(parts) on sequences of chunks
JoinChunks(parts, sep) ==
    IF Len(parts) = 0 THEN <<>>
    ELSE IF Len(parts) = 1 THEN parts[1]
    ELSE parts[1] \o sep \o JoinChunks(Tail(parts), sep)

RECURSIVE PyRepr(_)
PyRepr(x) ==
    CASE x.t = "NoneType" -> <<"None">>
      [] x.t = "bool" -> IF x.v THEN <<"True">> ELSE <<"False">>
      [] x.t = "int" -> <<ToString(x.v)>>
      [] x.t = "str" -> <<"'">> \o x.v \o <<"'">>
      [] x.t = "dict" ->
            <<"{">> \o JoinChunks([i \in 1..Len(x.v) |->
                          <<"'", x.v[i][1], "'", ": ">> \o PyRepr(x.v[i][2])], <<", ">>) \o <<"}">>
      [] x.t = "list" ->
            <<"[">> \o JoinChunks([i \in 1..Len(x.v) |-> PyRepr(x.v[i])], <<", ">>) \o <<"]">>

\* format(x, "") inside an f-string: a str prints as itself
Format(x) == IF x.t = "str" THEN x.v ELSE PyRepr(x)

-----------------------------------------------------------------------------
(* JSON text of a response body and json.loads *)

JNull == [t |-> "null", v |-> <<>>]
JTrue == [t |-> "true", v |-> <<>>]
JFalse == [t |-> "false", v |-> <<>>]
JNumber(n) == [t |-> "number", v |-> n]
JString(s) == [t |-> "string", v |-> s]
JObject(members) == [t |-> "object", v |-> members]
JArray(items) == [t |-> "array", v |-> items]
NotJson == [t |-> "invalid", v |-> <<>>]

RECURSIVE DictFromPairs(_)
\* dict(pairs): a repeated name keeps its first position and takes its last value
DictFromPairs(pairs) ==
    IF Len(pairs) = 0 THEN <<>>
    ELSE LET n == Len(pairs)
         IN SetItem(DictFromPairs(SubSeq(pairs, 1, n - 1)), pairs[n][1], pairs[n][2])

RECURSIVE JsonDecode(_)
JsonDecode(doc) ==
    CASE doc.t = "null" -> PyNone
      [] doc.t = "true" -> PyBool(TRUE)
      [] doc.t = "false" -> PyBool(FALSE)
      [] doc.t = "number" -> PyInt(doc.v)
      [] doc.t = "string" -> PyStr(doc.v)
      [] doc.t = "array" -> PyList([i \in 1..Len(doc.v) |-> JsonDecode(doc.v[i])])
      [] doc.t = "object" ->
            PyDict(DictFromPairs([i \in 1..Len(doc.v) |->
                                    <<doc.v[i][1], JsonDecode(doc.v[i][2])>>]))

JsonLoads(data) ==
    IF data.t = "invalid"
    THEN Raise("JSONDecodeError", PyStr(<<"Expecting value">>))
    ELSE Return(JsonDecode(data))

-----------------------------------------------------------------------------
(* str.split(",") and pytz.timezone *)

RECURSIVE SplitComma_skipempty(_)
\* a split that drops empty pieces, as str.split() without a separator does
SplitComma_skipempty(s) ==
    IF \E i \in 1..Len(s) : s[i] = ","
    THEN LET i == CHOOSE k \in 1..Len(s) : s[k] = "," /\ \A m \in 1..(k - 1) : s[m] # ","
         IN (IF i = 1 THEN <<>> ELSE <<PyStr(SubSeq(s, 1, i - 1))>>)
            \o SplitComma_skipempty(SubSeq(s, i + 1, Len(s)))
    ELSE IF Len(s) = 0 THEN <<>> ELSE <<PyStr(s)>>

RECURSIVE SplitComma(_)
SplitComma(s) ==
    IF \E i \in 1..Len(s) : s[i] = ","
    THEN LET i == CHOOSE k \in 1..Len(s) : s[k] = "," /\ \A m \in 1..(k - 1) : s[m] # ","
         IN <<PyStr(SubSeq(s, 1, i - 1))>> \o SplitComma(SubSeq(s, i + 1, Len(s)))
    ELSE <<PyStr(s)>>

\* tuple(value.split(","))
SplitLoc(value) ==
    IF value.t = "str"
    THEN Return(PyTuple(SplitComma(value.v)))
    ELSE Raise("AttributeError", PyStr(<<"'", value.t, "' object has no attribute 'split'">>))

\* the identifiers of the timezone database
AllTimezones == {<<"Asia/Tokyo">>, <<"UTC">>}

\* pytz.timezone(zone): the outcomes the installed pytz can produce.  pytz
\* releases differ on None (UnknownTimeZoneError, or AttributeError from
\* zone.upper()).
PytzTimezone(zone) ==
    CASE zone.t = "str" ->
            IF zone.v \in AllTimezones
            THEN {Return([t |-> "tzinfo", v |-> zone.v])}
            ELSE {Raise("UnknownTimeZoneError", zone)}
      [] zone.t = "NoneType" ->
            {Raise("UnknownTimeZoneError", PyNone),
             Raise("AttributeError", PyStr(<<"'NoneType' object has no attribute 'upper'">>))}
      [] OTHER ->
            {Raise("AttributeError", PyStr(<<"'", zone.t, "' object has no attribute 'upper'">>))}

\* datetime.now(tz) at clock reading now
DatetimeNow(tz, now) == [t |-> "datetime", v |-> <<now, tz.v>>]

-----------------------------------------------------------------------------
(* Inputs: the addresses a caller passes and what the transport delivers *)

SeqsUpTo(S, n) == UNION {[1..k -> S] : k \in 0..n}

\* "json" is the default of the ip_address parameter
Addresses == {PyStr(<<"json">>), PyStr(<<"8.8.8.8">>), PyStr(<<"invalid_ip">>)}

Chunks == {"1", ","}

PlainKeys == {"hostname", "city", "region", "country", "org", "postal"}

Keys == {"error", "ip", "loc", "timezone", "bogon"} \cup PlainKeys

\* the JSON values a body gives a name
ValuesOf(k) ==
    CASE k = "error" ->
            {JNull,
             JObject(<<>>),
             JObject(<< <<"title", JString(<<"Wrong ip">>)>> >>),
             JObject(<< <<"title", JString(<<"Wrong ip">>)>>,
                        <<"message", JString(<<"Please provide a valid IP address">>)>> >>)}
      [] k = "ip" -> {JString(<<"8.8.8.8">>), JNull}
      [] k = "loc" -> {JString(<<"1", ",", "1">>), JNull}
      [] k = "timezone" ->
            {JString(<<"Asia/Tokyo">>), JString(<<"Mars/Olympus">>), JNull, JTrue}
      [] k = "bogon" -> {JTrue, JFalse, JNull}
      [] OTHER -> {JString(<<"x">>), JNull}

\* the members an object about name k is made of: k with each of its values, and "status"
Members(k) == {<<k, x>> : x \in ValuesOf(k)} \cup {<<"status", JNumber(404)>>}

\* the answer of the service for 8.8.8.8, and for a bogon address
TypicalDocuments ==
    {JObject(<< <<"ip", JString(<<"8.8.8.8">>)>>, <<"hostname", JString(<<"x">>)>>,
                <<"city", JString(<<"x">>)>>, <<"region", JString(<<"x">>)>>,
                <<"country", JString(<<"x">>)>>, <<"loc", JString(<<"1", ",", "1">>)>>,
                <<"org", JString(<<"x">>)>>, <<"postal", JString(<<"x">>)>>,
                <<"timezone", JString(<<"Asia/Tokyo">>)>> >>),
     JObject(<< <<"ip", JString(<<"8.8.8.8">>)>>, <<"bogon", JTrue>> >>)}

Documents ==
    UNION {{JObject(m) : m \in SeqsUpTo(Members(k), MaxMembers)} : k \in Keys}
    \cup {JObject(<< <<"loc", JString(s)>> >>) : s \in SeqsUpTo(Chunks, MaxStrLen)}
    \cup TypicalDocuments
    \cup {NotJson, JNull, JNumber(404), JArray(<<>>), JArray(<<JString(<<"status">>)>>),
          JString(<<"status">>), JString(<<"x">>)}

\* the transport raises, or returns a response whose data is the body
Responses ==
    {[ok |-> FALSE, data |-> NotJson]} \cup {[ok |-> TRUE, data |-> d] : d \in Documents}

Clock == 0..MaxClock

-----------------------------------------------------------------------------
(* The constructor *)

\* the error check of __init__ on the parsed body
ErrorCheck(data) ==
    LET c == Contains(data, "status")
    IN  IF c.exc # "none" THEN c
        ELSE IF ~c.val.v THEN Return(PyNone)
        ELSE LET error == GetItem(data, "error")
             IN  IF error.exc # "none" THEN error
                 ELSE LET status == GetItem(data, "status")
                          title == GetItem(error.val, "title")
                          message == GetItem(error.val, "message")
                      IN  IF status.exc # "none" THEN status
                          ELSE IF title.exc # "none" THEN title
                          ELSE IF message.exc # "none" THEN message
                          ELSE Raise("ValueError",
                                     PyStr(Format(status.val) \o <<" ">> \o Format(title.val)
                                           \o <<": ">> \o Format(message.val)))

\* https.request('GET', url)
Request(url) == [method |-> "GET", url |-> url]

\* __init__ with `except Exception: pass`: the failure is swallowed
init_swallow(address, resp) ==
    /\ pc = "new"
    /\ ip_address' = address
    /\ requests' = Append(requests, Request(<<"https://ipinfo.io/">> \o Format(address)))
    /\ response' = resp
    /\ last_op' = "__init__"
    /\ all_data' = IF resp.ok /\ JsonLoads(resp.data).exc = "none"
                   THEN JsonLoads(resp.data).val ELSE all_data
    /\ result' = Return(PyNone)
    /\ pc' = "constructed"

\* __init__ that calls https.request again after a transport failure
init_retry(address, resp) ==
    /\ pc = "new"
    /\ ip_address' = address
    /\ requests' = IF resp.ok
                   THEN Append(requests, Request(<<"https://ipinfo.io/">> \o Format(address)))
                   ELSE requests \o <<Request(<<"https://ipinfo.io/">> \o Format(address)),
                                      Request(<<"https://ipinfo.io/">> \o Format(address))>>
    /\ response' = resp
    /\ last_op' = "__init__"
    /\ IF ~resp.ok
       THEN /\ all_data' = all_data
            /\ result' = Raise("MaxRetryError", PyStr(<<"Max retries exceeded with url">>))
       ELSE LET parsed == JsonLoads(resp.data)
            IN  IF parsed.exc # "none"
                THEN /\ all_data' = all_data
                     /\ result' = parsed
                ELSE /\ all_data' = parsed.val
                     /\ result' = ErrorCheck(parsed.val)
    /\ pc' = IF result'.exc = "none" THEN "constructed" ELSE "failed"

init(address, resp) ==
    /\ pc = "new"
    /\ ip_address' = address
    /\ requests' = Append(requests, Request(<<"https://ipinfo.io/">> \o Format(address)))
    /\ response' = resp
    /\ last_op' = "__init__"
    /\ IF ~resp.ok
       THEN /\ all_data' = all_data
            /\ result' = Raise("MaxRetryError", PyStr(<<"Max retries exceeded with url">>))
       ELSE LET parsed == JsonLoads(resp.data)
            IN  IF parsed.exc # "none"
                THEN /\ all_data' = all_data
                     /\ result' = parsed
                ELSE /\ all_data' = parsed.val
                     /\ result' = ErrorCheck(parsed.val)
    /\ pc' = IF result'.exc = "none" THEN "constructed" ELSE "failed"

GetDetailIPv4Info == \E address \in Addresses, resp \in Responses : init(address, resp)

-----------------------------------------------------------------------------
(* The properties and __repr__ *)

\* the caller's read op of the object returns or raises out and changes nothing else
Read(op, out) ==
    /\ last_op' = op
    /\ result' = out
    /\ UNCHANGED <<pc, ip_address, all_data, requests, response>>

\* self.all_data[key] without the membership test
Get_unguarded(key) == GetItem(all_data, key)

\* self.all_data[key] if key in self.all_data else None
Get(key) ==
    LET c == Contains(all_data, key)
    IN  IF c.exc # "none" THEN c
        ELSE IF c.val.v THEN GetItem(all_data, key)
        ELSE Return(PyNone)

repr ==
    /\ pc = "constructed"
    /\ Read("__repr__", Return(PyStr(Format(all_data))))

\* all that leaves out the items whose value is None
all_filtered ==
    /\ pc = "constructed"
    /\ Read("all", Return(IF all_data.t = "dict"
                          THEN PyDict(SelectSeq(all_data.v, LAMBDA item : item[2] # PyNone))
                          ELSE all_data))

all ==
    /\ pc = "constructed"
    /\ Read("all", Return(all_data))

hostname ==
    /\ pc = "constructed"
    /\ Read("hostname", Get("hostname"))

\* ip that returns the requested address instead of the payload's field
ip_echo ==
    /\ pc = "constructed"
    /\ Read("ip", Return(ip_address))

ip ==
    /\ pc = "constructed"
    /\ Read("ip", Get("ip"))

city ==
    /\ pc = "constructed"
    /\ Read("city", Get("city"))

region ==
    /\ pc = "constructed"
    /\ Read("region", Get("region"))

country ==
    /\ pc = "constructed"
    /\ Read("country", Get("country"))

\* location that keeps the tuple it computed in the payload
location_cached ==
    LET g == Get("loc")
    IN  /\ pc = "constructed"
        /\ last_op' = "location"
        /\ IF g.exc = "none" /\ Contains(all_data, "loc").val.v
           THEN /\ result' = SplitLoc(g.val)
                /\ all_data' = IF result'.exc = "none"
                               THEN PyDict(SetItem(all_data.v, "loc", result'.val))
                               ELSE all_data
           ELSE /\ result' = g
                /\ all_data' = all_data
        /\ UNCHANGED <<pc, ip_address, requests, response>>

location ==
    LET g == Get("loc")
    IN  /\ pc = "constructed"
        /\ Read("location",
                IF g.exc = "none" /\ Contains(all_data, "loc").val.v THEN SplitLoc(g.val) ELSE g)

organization ==
    /\ pc = "constructed"
    /\ Read("organization", Get("org"))

postal ==
    /\ pc = "constructed"
    /\ Read("postal", Get("postal"))

\* time that catches the timezone lookup's error and returns None
time_silent ==
    LET g == Get("timezone")
    IN  /\ pc = "constructed"
        /\ IF g.exc = "none" /\ Contains(all_data, "timezone").val.v
           THEN \E tz \in PytzTimezone(g.val), now \in Clock :
                   Read("time", IF tz.exc = "none" THEN Return(DatetimeNow(tz.val, now))
                                ELSE Return(PyNone))
           ELSE Read("time", g)

time ==
    LET g == Get("timezone")
    IN  /\ pc = "constructed"
        /\ IF g.exc = "none" /\ Contains(all_data, "timezone").val.v
           THEN \E tz \in PytzTimezone(g.val), now \in Clock :
                   Read("time", IF tz.exc = "none" THEN Return(DatetimeNow(tz.val, now)) ELSE tz)
           ELSE Read("time", g)

timezone ==
    LET g == Get("timezone")
    IN  /\ pc = "constructed"
        /\ IF g.exc = "none" /\ Contains(all_data, "timezone").val.v
           THEN \E tz \in PytzTimezone(g.val) : Read("timezone", tz)
           ELSE Read("timezone", g)

\* bogon by truthiness: `self.all_data.get("bogon") or None`
bogon_truthy ==
    LET g == Get("bogon")
    IN  /\ pc = "constructed"
        /\ Read("bogon", IF g.exc = "none" /\ g.val = PyBool(FALSE) THEN Return(PyNone) ELSE g)

bogon ==
    /\ pc = "constructed"
    /\ Read("bogon", Get("bogon"))

-----------------------------------------------------------------------------

Init ==
    /\ pc = "new"
    /\ ip_address = NoAttr
    /\ all_data = NoAttr
    /\ requests = <<>>
    /\ response = [ok |-> FALSE, data |-> NotJson]
    /\ last_op = "none"
    /\ result = Return(PyNone)

Next ==
    \/ GetDetailIPv4Info
    \/ repr
    \/ all
    \/ hostname
    \/ ip
    \/ city
    \/ region
    \/ country
    \/ location
    \/ organization
    \/ postal
    \/ time
    \/ timezone
    \/ bogon

Spec == Init /\ [][Next]_vars

-----------------------------------------------------------------------------
(* What the properties are stated about *)

\* the body the constructor received is a JSON object
BodyIsObject == pc # "new" /\ response.ok /\ response.data.t = "object"

\* ... with a "status" member: an error payload
BodyHasStatus == BodyIsObject /\ HasKey(response.data.v, "status")

\* ... without one: a success payload
BodyIsSuccess == BodyIsObject /\ ~HasKey(response.data.v, "status")

\* the value the body's text gives name k: that of its last member named k
RawValue(k) ==
    LET members == response.data.v
        i == CHOOSE n \in 1..Len(members) :
                members[n][1] = k /\ \A m \in (n + 1)..Len(members) : members[m][1] # k
    IN  members[i][2]

\* a constructed object whose payload is a mapping
Usable == pc = "constructed" /\ all_data.t = "dict"

\* the source key of each accessor
SourceKey ==
    [hostname |-> "hostname", ip |-> "ip", city |-> "city", region |-> "region",
     country |-> "country", location |-> "loc", organization |-> "org",
     postal |-> "postal", time |-> "timezone", timezone |-> "timezone", bogon |-> "bogon"]

PlainAccessors == {"hostname", "ip", "city", "region", "country", "organization", "postal"}

CountCommas(s) == Cardinality({i \in 1..Len(s) : s[i] = ","})

\* the request the constructor is to make for the stored address
ExpectedRequest == [method |-> "GET", url |-> <<"https://ipinfo.io/">> \o ip_address.v]

-----------------------------------------------------------------------------
(* C1 *)

\* C1: every body that parses to a mapping with a "status" key makes the
\* constructor fail with ValueError, never with another error and never
\* succeed; where the payload has error.title and error.message the message is
\* "<status> <title>: <message>".
C1_StatusAlwaysValueError ==
    BodyHasStatus =>
        /\ pc = "failed"
        /\ result.exc = "ValueError"
        /\ LET d == JsonDecode(response.data).v
           IN  (/\ HasKey(d, "error")
                /\ Lookup(d, "error").t = "dict"
                /\ HasKey(Lookup(d, "error").v, "title")
                /\ HasKey(Lookup(d, "error").v, "message"))
               => result.val = PyStr(Format(Lookup(d, "status")) \o <<" ">>
                                     \o Format(Lookup(Lookup(d, "error").v, "title")) \o <<": ">>
                                     \o Format(Lookup(Lookup(d, "error").v, "message")))

-----------------------------------------------------------------------------
(* C2 *)

\* C2: a body that parses to a mapping without a "status" key constructs, and
\* every call to all returns the parsed mapping: one item per name of the body,
\* each with the body's value for it, nothing added, dropped or rewritten.
C2_AllIsParsedMapping ==
    BodyIsSuccess =>
        /\ pc = "constructed"
        /\ last_op = "all" =>
              /\ result.exc = "none"
              /\ result.val.t = "dict"
              /\ DictKeys(result.val.v) = DictKeys(response.data.v)
              /\ Len(result.val.v) = Cardinality(DictKeys(response.data.v))
              /\ \A k \in DictKeys(response.data.v) :
                    Lookup(result.val.v, k) = JsonDecode(RawValue(k))

C2_Witness ==
    /\ BodyIsSuccess
    /\ last_op = "all"
    /\ Len(response.data.v) = 2
    /\ HasKey(result.val.v, "bogon")

-----------------------------------------------------------------------------
(* C3 *)

\* C3: on a constructed result, an accessor whose source key is missing from
\* the payload returns None and does not raise.
C3_MissingKeyGivesNone ==
    (/\ Usable
     /\ last_op \in DOMAIN SourceKey
     /\ SourceKey[last_op] \notin DictKeys(all_data.v))
    => result = Return(PyNone)

C3_Witness ==
    /\ Usable
    /\ last_op = "location"
    /\ "loc" \notin DictKeys(all_data.v)
    /\ result = Return(PyNone)

-----------------------------------------------------------------------------
(* C4 *)

\* C4 as claimed: a plain accessor whose source key is present returns the
\* payload's value for it, which is therefore not the absent marker.
C4_PresentKeyNonAbsent ==
    (/\ Usable
     /\ last_op \in PlainAccessors
     /\ SourceKey[last_op] \in DictKeys(all_data.v))
    => /\ result = Return(JsonDecode(RawValue(SourceKey[last_op])))
       /\ result.val # PyNone

\* C4 as amended: a plain accessor whose source key is present returns exactly
\* the payload's value for it, which is the absent marker only when that value
\* is JSON null; when the payload's ip field is the requested address, the ip
\* accessor equals the requested address.
C4_PresentKeyProjected ==
    (/\ Usable
     /\ last_op \in PlainAccessors
     /\ SourceKey[last_op] \in DictKeys(all_data.v))
    => /\ result = Return(JsonDecode(RawValue(SourceKey[last_op])))
       /\ (result.val = PyNone) <=> (RawValue(SourceKey[last_op]) = JNull)
       /\ (last_op = "ip" /\ RawValue("ip") = JString(ip_address.v)) => result.val = ip_address

C4_Witness ==
    /\ Usable
    /\ last_op = "ip"
    /\ ip_address = PyStr(<<"8.8.8.8">>)
    /\ HasKey(all_data.v, "ip")
    /\ result = Return(PyStr(<<"8.8.8.8">>))

-----------------------------------------------------------------------------
(* C5 *)

\* C5: any address is forwarded to the service as it stands, and a transport
\* failure, a body that is not JSON and an error payload each end the
\* constructor with an error raised to the caller: no object is produced and
\* nothing is read from one.
C5_FailurePropagates ==
    pc # "new" =>
        /\ requests[1].url = <<"https://ipinfo.io/">> \o ip_address.v
        /\ (~response.ok \/ response.data.t = "invalid" \/ BodyHasStatus) =>
              /\ pc = "failed"
              /\ result.exc # "none"
              /\ last_op = "__init__"
              /\ ~response.ok => result.exc = "MaxRetryError"
              /\ (response.ok /\ response.data.t = "invalid") => result.exc = "JSONDecodeError"

C5_Witness ==
    /\ pc = "failed"
    /\ ip_address = PyStr(<<"invalid_ip">>)
    /\ BodyHasStatus
    /\ result.exc = "ValueError"
    /\ requests = << [method |-> "GET", url |-> <<"https://ipinfo.io/", "invalid_ip">>] >>

-----------------------------------------------------------------------------
(* C6 *)

\* C6: once constructed, the payload is the mapping parsed from the body and
\* the stored address is the one requested, and no read or rendering changes
\* either.
C6_PayloadNeverMutated ==
    /\ [](pc = "constructed" =>
            /\ all_data = JsonDecode(response.data)
            /\ ip_address \in Addresses
            /\ requests = <<ExpectedRequest>>)
    /\ [][pc = "constructed" => (all_data' = all_data /\ ip_address' = ip_address)]_vars

C6_Witness ==
    /\ Usable
    /\ last_op = "location"
    /\ HasKey(all_data.v, "loc")
    /\ result.exc = "none"
    /\ all_data = JsonDecode(response.data)

-----------------------------------------------------------------------------
(* C7 *)

\* C7: for a loc string with exactly one comma, location returns a pair of two
\* strings which, joined by a comma, give the loc string back.
C7_LocationRoundTrip ==
    (/\ Usable
     /\ last_op = "location"
     /\ HasKey(all_data.v, "loc")
     /\ Lookup(all_data.v, "loc").t = "str"
     /\ CountCommas(Lookup(all_data.v, "loc").v) = 1)
    => /\ result.exc = "none"
       /\ result.val.t = "tuple"
       /\ Len(result.val.v) = 2
       /\ \A i \in 1..2 : result.val.v[i].t = "str"
       /\ result.val.v[1].v \o <<",">> \o result.val.v[2].v = Lookup(all_data.v, "loc").v

C7_Witness ==
    /\ Usable
    /\ last_op = "location"
    /\ HasKey(all_data.v, "loc")
    /\ Lookup(all_data.v, "loc") = PyStr(<<"1", ",", "1">>)
    /\ result = Return(PyTuple(<<PyStr(<<"1">>), PyStr(<<"1">>)>>))

-----------------------------------------------------------------------------
(* C8 *)

\* C8 as claimed: bogon returns true for true, false for false, and the absent
\* marker exactly when the key is missing.
C8_BogonAbsentOnlyWhenMissing ==
    (Usable /\ last_op = "bogon") =>
        LET present == HasKey(all_data.v, "bogon")
        IN  /\ (present /\ RawValue("bogon") = JTrue) => result = Return(PyBool(TRUE))
            /\ (present /\ RawValue("bogon") = JFalse) => result = Return(PyBool(FALSE))
            /\ ~present => result = Return(PyNone)
            /\ result = Return(PyNone) => ~present

\* C8 as amended: bogon returns true for true, false for false, and the absent
\* marker when the key is missing, and otherwise only when its value is JSON
\* null; a present false is never reported as absent, an absent key never as
\* false.
C8_BogonThreeValued ==
    (Usable /\ last_op = "bogon") =>
        LET present == HasKey(all_data.v, "bogon")
        IN  /\ (present /\ RawValue("bogon") = JTrue) => result = Return(PyBool(TRUE))
            /\ (present /\ RawValue("bogon") = JFalse) => result = Return(PyBool(FALSE))
            /\ ~present => result = Return(PyNone)
            /\ result = Return(PyNone) => (~present \/ RawValue("bogon") = JNull)

C8_Witness ==
    /\ Usable
    /\ last_op = "bogon"
    /\ HasKey(all_data.v, "bogon")
    /\ RawValue("bogon") = JFalse
    /\ result = Return(PyBool(FALSE))

-----------------------------------------------------------------------------
(* C9 *)

\* the payload's timezone is a string the timezone database does not know
UnknownZone ==
    /\ BodyIsSuccess
    /\ HasKey(response.data.v, "timezone")
    /\ RawValue("timezone").t = "string"
    /\ RawValue("timezone").v \notin AllTimezones

-----------------------------------------------------------------------------
(* C10 *)

=============================================================================
